---- MODULE Spec2Model ----
(***************************************************************************)
(* Remote task invocation over MQTT: MQTTDeviceServer and                  *)
(* MQTTOrchestratorClient of orchestration/mqtt_wrapper.py, with the task  *)
(* registry filled by mqtt_task; the decorators mqtt_task, task and        *)
(* sparkplug_task; and the Sparkplug variant of sparkplug_minimal.         *)
(*                                                                         *)
(* Text is a sequence of fragments (a message "contains" a text when one   *)
(* of its fragments is that text).  Python values and JSON texts are kept  *)
(* apart, so that json.dumps / json.loads is a conversion and not the      *)
(* identity.  The 'timestamp' fields of the payloads are left out: no code *)
(* path reads them.                                                        *)
(***************************************************************************)
EXTENDS Integers, Sequences, FiniteSets, TLC

\* ------------------------------------------------------------------ bounds
\* caller threads sharing one MQTTOrchestratorClient
NumCallers == 2
\* execute_task calls that get as far as creating a request
MaxRequests == 2
\* payloads published on the topics by other participants
MaxForeign == 1
\* extra deliveries of a result message (at-least-once transport)
MaxDuplicates == 1
\* connect() calls on the client
MaxSessions == 1
\* Broker connects the device has accepted, at most
MaxDeviceSessions == 3

Callers == 1..NumCallers

\* --------------------------------------------------------- Python values
PyInt(i) == [t |-> "int", n |-> <<i>>, s |-> <<>>]
PyStr(frags) == [t |-> "str", n |-> <<>>, s |-> frags]
PyTuple(items) == [t |-> "tuple", n |-> items, s |-> <<>>]
PyList(items) == [t |-> "list", n |-> items, s |-> <<>>]
PyDict(keys) == [t |-> "dict", n |-> <<>>, s |-> keys]
PyNone == [t |-> "NoneType", n |-> <<>>, s |-> <<>>]
PyObject == [t |-> "object", n |-> <<>>, s |-> <<>>]

\* str(value), as an f-string or str(e) formats it
Str(v) ==
    CASE v.t = "int" -> <<ToString(v.n[1])>>
      [] v.t = "str" -> v.s
      [] OTHER -> <<"<", v.t, ">">>

\* A key that a dict does not hold (dict.get returns its default for it)
Missing == "<missing>"

EmptyDict == <<>>

\* ------------------------------------------------------------ JSON codec
JNumber(i) == [j |-> "number", n |-> <<i>>, s |-> <<>>]
JString(frags) == [j |-> "string", n |-> <<>>, s |-> frags]
JArray(items) == [j |-> "array", n |-> items, s |-> <<>>]
JObject(keys) == [j |-> "object", n |-> <<>>, s |-> keys]
JNull == [j |-> "null", n |-> <<>>, s |-> <<>>]

\* json.dumps raises TypeError for a value it has no encoding for
Serializable(v) == v.t \in {"int", "str", "tuple", "list", "dict", "NoneType"}

\* json.dumps of one value: a tuple and a list are both written as an array
JsonDumps(v) ==
    CASE v.t = "int" -> JNumber(v.n[1])
      [] v.t = "str" -> JString(v.s)
      [] v.t \in {"tuple", "list"} -> JArray(v.n)
      [] v.t = "dict" -> JObject(v.s)
      [] OTHER -> JNull

\* json.loads of one value: an array is read back as a list
JsonLoads(x) ==
    CASE x.j = "number" -> PyInt(x.n[1])
      [] x.j = "string" -> PyStr(x.s)
      [] x.j = "array" -> PyList(x.n)
      [] x.j = "object" -> PyDict(x.s)
      [] OTHER -> PyNone

DumpsDict(d) == [k \in DOMAIN d |-> JsonDumps(d[k])]
LoadsDict(d) == [k \in DOMAIN d |-> JsonLoads(d[k])]
DictSerializable(d) == \A k \in DOMAIN d : Serializable(d[k])

\* --------------------------------------------------------- task registry
\* _mqtt_task_registry after the module's @mqtt_task() decorators have run: the
\* three tasks of examples/test_mqtt_communication.py and two further tasks
\* whose return values json has no faithful encoding for.
RegistryNames ==
    <<"test_mix_colors", "test_get_status", "test_error_task",
      "read_position", "get_labware">>

_mqtt_task_registry == {RegistryNames[i] : i \in DOMAIN RegistryNames}

Required(name) == [name |-> name, has_default |-> FALSE, default |-> PyNone]
Optional(name, value) == [name |-> name, has_default |-> TRUE, default |-> value]

\* inspect.signature(func) of each registered function
Signature(task_name) ==
    CASE task_name = "test_mix_colors" ->
             <<Required("r"), Required("g"), Required("b"),
               Optional("well", PyStr(<<"A1">>))>>
      [] OTHER -> <<>>

\* The parameter annotations of each registered function: the Python type a
\* value must have to match
Annotations(task_name) ==
    CASE task_name = "test_mix_colors" ->
             ("r" :> "int") @@ ("g" :> "int") @@ ("b" :> "int") @@ ("well" :> "str")
      [] OTHER -> <<>>

\* The registered function, called with keyword arguments.
TaskFunction(task_name, arguments) ==
    CASE task_name = "test_mix_colors" ->
             [raised |-> FALSE, exc |-> <<>>,
              value |-> PyStr(<<"MQTT_TESTED: Mixed RGB(">> \o Str(arguments["r"])
                              \o <<",">> \o Str(arguments["g"])
                              \o <<",">> \o Str(arguments["b"])
                              \o <<") in well ">> \o Str(arguments["well"]))]
      [] task_name = "test_get_status" ->
             [raised |-> FALSE, exc |-> <<>>,
              value |-> PyDict(<<"status", "timestamp", "test_mode", "device_id">>)]
      [] task_name = "test_error_task" ->
             [raised |-> TRUE, exc |-> <<"This is a test MQTT error">>,
              value |-> PyNone]
      [] task_name = "read_position" ->
             [raised |-> FALSE, exc |-> <<>>, value |-> PyTuple(<<10, 20>>)]
      [] OTHER ->
             [raised |-> FALSE, exc |-> <<>>, value |-> PyObject]

\* Signature.bind(**parameters) followed by BoundArguments.apply_defaults():
\* the first required parameter without a value is reported before any
\* unexpected keyword; values are not checked against the annotations.
Bind(sig, parameters) ==
    LET names == {sig[i].name : i \in DOMAIN sig}
        missing == {i \in DOMAIN sig :
                       ~sig[i].has_default /\ sig[i].name \notin DOMAIN parameters}
        unexpected == DOMAIN parameters \ names
        first == CHOOSE i \in missing : \A k \in missing : i <= k
    IN  IF missing # {}
        THEN [ok |-> FALSE, arguments |-> EmptyDict,
              error |-> <<"missing a required argument: '", sig[first].name, "'">>]
        ELSE IF unexpected # {}
        THEN [ok |-> FALSE, arguments |-> EmptyDict,
              error |-> <<"got an unexpected keyword argument '",
                          CHOOSE k \in unexpected : TRUE, "'">>]
        ELSE [ok |-> TRUE, error |-> <<>>,
              arguments |-> [k \in names |->
                  IF k \in DOMAIN parameters THEN parameters[k]
                  ELSE sig[CHOOSE i \in DOMAIN sig : sig[i].name = k].default]]

\* ------------------------------------------------------------- payloads
\* The command dict of execute_task
Command(request_id, task, parameters) ==
    [kind |-> "dict", request_id |-> request_id, task |-> task,
     parameters |-> parameters]

\* json.dumps(command) and json.loads(msg.payload) for a command
DumpsCommand(c) ==
    [kind |-> "object", request_id |-> c.request_id, task |-> c.task,
     parameters |-> DumpsDict(c.parameters)]
LoadsCommand(w) ==
    [kind |-> IF w.kind = "object" THEN "dict" ELSE "list",
     request_id |-> w.request_id, task |-> w.task,
     parameters |-> LoadsDict(w.parameters)]

\* A payload that is not JSON, and one that is JSON but not an object
InvalidJson ==
    [kind |-> "invalid", request_id |-> Missing, task |-> Missing,
     parameters |-> EmptyDict]
JsonArray ==
    [kind |-> "array", request_id |-> Missing, task |-> Missing,
     parameters |-> EmptyDict]

\* ResultPayload that leaves the task's value out
ResultPayloadNoValue(request_id, task, result) ==
    [kind |-> "dict", request_id |-> request_id, task |-> task,
     status |-> "success", result |-> PyNone, error |-> <<Missing>>]

\* result_payload and error_payload of _execute_command; a key the dict does
\* not hold reads as None ('result') or as Missing ('error')
ResultPayload(request_id, task, result) ==
    [kind |-> "dict", request_id |-> request_id, task |-> task,
     status |-> "success", result |-> result, error |-> <<Missing>>]
\* ErrorPayload with a fixed text in place of str(e)
ErrorPayloadNoText(payload, e) ==
    [kind |-> "dict",
     request_id |-> IF payload.request_id = Missing THEN "unknown"
                    ELSE payload.request_id,
     task |-> IF payload.task = Missing THEN "unknown" ELSE payload.task,
     status |-> "error", result |-> PyNone, error |-> <<"Task execution failed">>]

\* ErrorPayload that never reads the command's request_id
ErrorPayloadUnknownId(payload, e) ==
    [kind |-> "dict", request_id |-> "unknown",
     task |-> IF payload.task = Missing THEN "unknown" ELSE payload.task,
     status |-> "error", result |-> PyNone, error |-> e]

ErrorPayload(payload, e) ==
    [kind |-> "dict",
     request_id |-> IF payload.request_id = Missing THEN "unknown"
                    ELSE payload.request_id,
     task |-> IF payload.task = Missing THEN "unknown" ELSE payload.task,
     status |-> "error", result |-> PyNone, error |-> e]

DumpsResult(p) ==
    [kind |-> "object", request_id |-> p.request_id, task |-> p.task,
     status |-> p.status, result |-> JsonDumps(p.result), error |-> p.error]
LoadsResult(w) ==
    [kind |-> IF w.kind = "object" THEN "dict" ELSE "list",
     request_id |-> w.request_id, task |-> w.task,
     status |-> w.status, result |-> JsonLoads(w.result), error |-> w.error]

\* ------------------------------------------------------- MQTTDeviceServer
\* status_payload of _publish_status; `data or {}` has no task list when no
\* data is given
StatusPayload(status, tasks) == [status |-> status, tasks |-> tasks]

\* The last-will messages MQTTDeviceServer.__init__ registers on its client
\* before connecting: it makes no will_set call
will_set == <<>>

\* OnConnect that takes every CONNACK for an accepted one
OnConnectAnyRc(rc) ==
    [connected |-> TRUE, subscribe |-> TRUE,
     status |-> <<StatusPayload("online", RegistryNames)>>]

\* MQTTDeviceServer._on_connect: whether it sets self.connected, whether it
\* subscribes to the command topic, and the status messages it publishes
OnConnect(rc) ==
    IF rc = 0
    THEN [connected |-> TRUE, subscribe |-> TRUE,
          status |-> <<StatusPayload("online", RegistryNames)>>]
    ELSE [connected |-> FALSE, subscribe |-> FALSE, status |-> <<>>]

\* str(uuid.uuid4()) on the device, for a command without 'request_id'
DeviceUuid == "device-uuid"

\* NotFoundMessage that does not say which task
NotFoundMessageNoName(task_name) ==
    <<"Task not found. Available: ">> \o RegistryNames

\* The ValueError text for a task name that is not registered
NotFoundMessage(task_name) ==
    <<"Task '", task_name, "' not found. Available: ">> \o RegistryNames

NoOutcome ==
    [exc |-> FALSE, e |-> <<>>, published |-> <<>>, invoked |-> FALSE,
     raised |-> FALSE]

\* TryExecute that hands the task body to another thread and returns at once:
\* the body has started, nothing is published yet
TryExecuteInThread(payload) ==
    IF payload.kind = "dict" /\ payload.task \in _mqtt_task_registry
       /\ Bind(Signature(payload.task), payload.parameters).ok
    THEN [NoOutcome EXCEPT !.invoked = TRUE]
    ELSE [NoOutcome EXCEPT !.exc = TRUE, !.e = <<"rejected">>]

\* The try block of _execute_command: what it published, whether the task
\* function was called and whether it raised, and the exception (if any) that
\* ended the block.
TryExecute(payload) ==
    IF payload.kind # "dict"
    THEN [NoOutcome EXCEPT !.exc = TRUE,
              !.e = <<"'list' object has no attribute 'get'">>]
    ELSE
    LET request_id == IF payload.request_id = Missing THEN DeviceUuid
                      ELSE payload.request_id
        task_name == payload.task
    IN  IF task_name \in {Missing, ""}
        THEN [NoOutcome EXCEPT !.exc = TRUE, !.e = <<"No task specified in command">>]
        ELSE IF task_name \notin _mqtt_task_registry
        THEN [NoOutcome EXCEPT !.exc = TRUE, !.e = NotFoundMessage(task_name)]
        ELSE
        LET bound_args == Bind(Signature(task_name), payload.parameters)
        IN  IF ~bound_args.ok
            THEN [NoOutcome EXCEPT !.exc = TRUE, !.e = bound_args.error]
            ELSE
            LET r == TaskFunction(task_name, bound_args.arguments)
            IN  IF r.raised
                THEN [NoOutcome EXCEPT !.exc = TRUE, !.e = r.exc,
                          !.invoked = TRUE, !.raised = TRUE]
                ELSE IF ~Serializable(r.value)
                THEN [NoOutcome EXCEPT !.exc = TRUE, !.invoked = TRUE,
                          !.e = <<"Object of type ", r.value.t,
                                  " is not JSON serializable">>]
                ELSE [NoOutcome EXCEPT !.invoked = TRUE,
                          !.published = <<DumpsResult(
                              ResultPayload(request_id, task_name, r.value))>>]

\* _execute_command without its except block: an exception of the try block
\* leaves the method and nothing is published for it
ExecuteCommandNoExcept(payload) ==
    LET b == TryExecute(payload)
    IN  [published |-> b.published, invoked |-> b.invoked,
         raised |-> b.raised, escaped |-> b.exc]

\* _execute_command: the try block, and the except block that publishes the
\* error result.  The except block reads payload.get again, so for a payload
\* that is not a dict it raises in turn and the exception leaves the method.
_execute_command(payload) ==
    LET b == TryExecute(payload)
    IN  IF ~b.exc
        THEN [published |-> b.published, invoked |-> b.invoked,
              raised |-> b.raised, escaped |-> FALSE]
        ELSE IF payload.kind # "dict"
        THEN [published |-> <<>>, invoked |-> b.invoked,
              raised |-> b.raised, escaped |-> TRUE]
        ELSE [published |-> <<DumpsResult(ErrorPayload(payload, b.e))>>,
              invoked |-> b.invoked, raised |-> b.raised, escaped |-> FALSE]

\* ServerOnMessage with the json.JSONDecodeError clause alone
ServerOnMessageJsonOnly(msg) ==
    IF msg.kind = "invalid"
    THEN [published |-> <<>>, invoked |-> FALSE, raised |-> FALSE,
          escaped |-> FALSE]
    ELSE _execute_command(LoadsCommand(msg))

\* MQTTDeviceServer._on_message: json.loads, _execute_command, and the two
\* except clauses that end every exception in the handler.
ServerOnMessage(msg) ==
    IF msg.kind = "invalid"
    THEN [published |-> <<>>, invoked |-> FALSE, raised |-> FALSE,
          escaped |-> FALSE]
    ELSE [_execute_command(LoadsCommand(msg)) EXCEPT !.escaped = FALSE]

\* ------------------------------------------------- MQTTOrchestratorClient
\* The timeout argument of __init__
self_timeout == 30

\* str(uuid.uuid4()) in execute_task: the n-th token drawn, unlike the others
NewRequestId(n) == "req-" \o ToString(n)

\* timeout=None, the default of execute_task's timeout argument
None == 0

\* CmdTimeout without the fallback to self.timeout
CmdTimeoutNoDefault(timeout) == timeout

\* cmd_timeout = timeout or self.timeout
CmdTimeout(timeout) == IF timeout = None THEN self_timeout ELSE timeout

\* Queue.get(timeout=cmd_timeout) on an empty queue raises Empty once the
\* timeout has passed; with timeout=None it waits without end.
Expires(cmd_timeout) == cmd_timeout # None

\* LookupQueue without the membership test on the key: every pending queue
LookupQueueAny(pending, request_id) ==
    {pending[k] : k \in DOMAIN pending}

\* The queues a result with this request_id is put into: the entry of
\* pending_requests under that key, if there is one.
LookupQueue(pending, request_id) ==
    IF request_id \in DOMAIN pending THEN {pending[request_id]} ELSE {}

\* InsertEntry that leaves the table as it is
InsertEntryForgotten(pending, request_id, queue) == pending

\* pending_requests[request_id] = result_queue
InsertEntry(pending, request_id, queue) ==
    [k \in DOMAIN pending \cup {request_id} |->
        IF k = request_id THEN queue ELSE pending[k]]

\* pending_requests.pop(request_id, None)
\* PopEntry that leaves the entry in the table
PopEntryKept(pending, request_id) == pending

PopEntry(pending, request_id) ==
    [k \in DOMAIN pending \ {request_id} |-> pending[k]]

\* OrchOnMessage written with pending_requests.setdefault(request_id, Queue())
OrchOnMessageSetDefault(pending, queues, msg) ==
    IF msg.kind # "object"
    THEN [pending_requests |-> pending, result_queue |-> queues,
          escaped |-> FALSE]
    ELSE
    LET payload == LoadsResult(msg)
        table == IF payload.request_id \in DOMAIN pending THEN pending
                 ELSE [k \in DOMAIN pending \cup {payload.request_id} |->
                          IF k \in DOMAIN pending THEN pending[k] ELSE 0]
    IN  [pending_requests |-> table,
         result_queue |-> [q \in DOMAIN queues |->
             IF q = table[payload.request_id]
             THEN Append(queues[q], payload) ELSE queues[q]],
         escaped |-> FALSE]

\* MQTTOrchestratorClient._on_message for a message on the result topic:
\* the new pending_requests and queues, and whether an exception left the
\* handler.  A payload that is not JSON ends in the JSONDecodeError clause, one
\* that is not an object in the Exception clause (payload.get fails).
OrchOnMessage(pending, queues, msg) ==
    IF msg.kind # "object"
    THEN [pending_requests |-> pending, result_queue |-> queues,
          escaped |-> FALSE]
    ELSE
    LET payload == LoadsResult(msg)
        targets == LookupQueue(pending, payload.request_id)
    IN  [pending_requests |-> pending,
         result_queue |-> [q \in DOMAIN queues |->
             IF q \in targets THEN Append(queues[q], payload) ELSE queues[q]],
         escaped |-> FALSE]

\* Disconnect that stops the loop and leaves self.connected as it is
DisconnectKeepsFlag(is_connected, loop_running) ==
    [connected |-> is_connected, loop |-> FALSE]

\* MQTTOrchestratorClient.disconnect: the flag and the network loop after it
Disconnect(is_connected, loop_running) ==
    IF is_connected
    THEN [connected |-> FALSE, loop |-> FALSE]
    ELSE [connected |-> is_connected, loop |-> loop_running]

\* _on_message up to the membership test (lines 318-324): whether the
\* handler goes on to the lookup.  A payload that is not a JSON object ends
\* in one of the except clauses.
OnMessageTest(pending, msg) ==
    IF msg.kind # "object"
    THEN [found |-> FALSE, escaped |-> FALSE]
    ELSE [found |-> LoadsResult(msg).request_id \in DOMAIN pending,
          escaped |-> FALSE]

\* OnMessageLookup without the except Exception clause
OnMessageLookupUncaught(pending, request_id) ==
    IF request_id \in DOMAIN pending
    THEN [KeyError |-> FALSE, escaped |-> FALSE, queue |-> pending[request_id]]
    ELSE [KeyError |-> TRUE, escaped |-> TRUE, queue |-> 0]

\* self.pending_requests[request_id] (line 325), evaluated after the test:
\* the queue found, or the KeyError that the except Exception clause
\* (lines 333-334) catches and logs
OnMessageLookup(pending, request_id) ==
    IF request_id \in DOMAIN pending
    THEN [KeyError |-> FALSE, escaped |-> FALSE, queue |-> pending[request_id]]
    ELSE [KeyError |-> TRUE, escaped |-> FALSE, queue |-> 0]

NoResult ==
    [kind |-> "none", request_id |-> Missing, task |-> Missing,
     status |-> Missing, result |-> PyNone, error |-> <<Missing>>]

Returned(value) == [kind |-> "return", value |-> value, message |-> <<>>]
Raised(exception, message) ==
    [kind |-> exception, value |-> PyNone, message |-> message]
NoOutcomeYet == [kind |-> "none", value |-> PyNone, message |-> <<>>]

\* What execute_task does with the payload it took from its queue
OutcomeOf(result) ==
    IF result.status = "success"
    THEN Returned(result.result)
    ELSE Raised("RuntimeError",
                <<"Task failed: ">> \o
                (IF result.error = <<Missing>> THEN <<"Unknown error">>
                 ELSE result.error))

\* The TimeoutError of execute_task
TimeoutOutcome(task, cmd_timeout) ==
    Raised("TimeoutError",
           <<"Task '", task, "' timed out after ", ToString(cmd_timeout),
             " seconds">>)

\* ------------------------------------------------------------------ inputs
Rgb == ("r" :> PyInt(255)) @@ ("g" :> PyInt(128)) @@ ("b" :> PyInt(64))

Invocation(task, parameters, timeout) ==
    [task_name |-> task, parameters |-> parameters, timeout |-> timeout]

\* The execute_task calls the callers make: task_name, parameters (with the
\* keyword arguments merged in) and timeout.
Invocations ==
    { Invocation("test_mix_colors", Rgb @@ ("well" :> PyStr(<<"C3">>)), None),
      Invocation("test_mix_colors", Rgb, None),
      Invocation("test_mix_colors", ("r" :> PyInt(255)) @@ ("g" :> PyInt(128)), None),
      Invocation("test_mix_colors", Rgb @@ ("speed" :> PyInt(1)), None),
      Invocation("test_mix_colors", ("r" :> PyStr(<<"red">>)) @@ Rgb, None),
      Invocation("test_mix_colors", ("r" :> PyTuple(<<255, 0>>)) @@ Rgb, None),
      Invocation("test_mix_colors", ("r" :> PyObject) @@ Rgb, None),
      Invocation("test_get_status", EmptyDict, 5),
      Invocation("test_error_task", EmptyDict, None),
      Invocation("nonexistent_mqtt_task", EmptyDict, None),
      Invocation("read_position", EmptyDict, None),
      Invocation("get_labware", EmptyDict, None) }

\* Commands other publishers put on the device's command topic
ForeignCommands ==
    { InvalidJson, JsonArray,
      [kind |-> "object", request_id |-> Missing, task |-> Missing,
       parameters |-> EmptyDict],
      DumpsCommand(Command("other-client-1", "test_get_status", EmptyDict)) }

\* Payloads other publishers put on the device's result topic
ForeignResults ==
    { [kind |-> k, request_id |-> Missing, task |-> Missing, status |-> Missing,
       result |-> JNull, error |-> <<Missing>>] : k \in {"invalid", "array"} }

\* ------------------------------------------------------ task registration
\* The three decorators, each with a registry of its own
Decorators == {"mqtt_task", "task", "sparkplug_task"}

\* Function objects a module defines: two def statements for the name
\* mix_color and one for home_robot
Functions ==
    { [id |-> 1, __name__ |-> "mix_color"],
      [id |-> 2, __name__ |-> "mix_color"],
      [id |-> 3, __name__ |-> "home_robot"] }

\* name=None of mqtt_task / task; '' is as falsy as None in `name or ...`
NoName == ""

\* What a decorator expression evaluates to, and so what the decorated name
\* is bound to: the function itself, the inner function `decorator` (a
\* closure over `name`), or the wrapper of sparkplug_task
FunctionObject(func) == [is |-> "function", id |-> func.id]
DecoratorClosure(func) == [is |-> "decorator", id |-> func.id]
WrapperOf(func) == [is |-> "wrapper", id |-> func.id]
Unbound == [is |-> "unbound", id |-> 0]

\* An empty registry: _mqtt_task_registry = {} and its two siblings
EmptyRegistry == <<>>

\* The inner function `decorator` of mqtt_task(name) and of task(name),
\* applied to func: the registry afterwards, what is returned, and whether
\* it raised
decorator(name, func, reg) ==
    LET task_name == IF name = NoName THEN func.__name__ ELSE name
    IN  [registry |-> (task_name :> func.id) @@ reg,
         task_name |-> task_name,
         returns |-> FunctionObject(func),
         raised |-> FALSE]

\* sparkplug_task(func)
sparkplug_task(func, reg) ==
    [registry |-> (func.__name__ :> func.id) @@ reg,
     task_name |-> func.__name__,
     returns |-> WrapperOf(func),
     raised |-> FALSE]

\* `@mqtt_task` / `@task` written without parentheses: mqtt_task(func) binds
\* func to the parameter `name` and returns the inner function; `decorator`
\* is not called and the registry is not touched
mqtt_task_bare(func, reg) ==
    [registry |-> reg,
     task_name |-> func.__name__,
     returns |-> DecoratorClosure(func),
     raised |-> FALSE]

\* The ways a def statement is decorated: `@d`, `@d()`, `@d("mix_color")`
Styles == {"bare", "call", "named"}

\* A decorated def statement, evaluated
Decorated(d, style, func, reg) ==
    CASE d = "sparkplug_task" -> sparkplug_task(func, reg)
      [] style = "bare" -> mqtt_task_bare(func, reg)
      [] style = "call" -> decorator(NoName, func, reg)
      [] OTHER -> decorator("mix_color", func, reg)

\* ------------------------------------------------- sparkplug_minimal
\* Text is kept as a sequence of fragments, so that a prefix can be tested
\* and removed.  _task_registry of the device process holds greet(name) of
\* sparkplug_minimal/device.py.
SpRegistry == {"greet"}

\* The edge devices of the group.  device_001 runs device.py; device_002 is a
\* second device process whose module decorates a function without
\* parameters, result_summary().
SpDevices == {"device_001", "device_002"}

\* _task_registry of each device process after its module is imported
SpRegistryOf(device_id) ==
    IF device_id = "device_001" THEN SpRegistry ELSE {"result_summary"}

\* The fragments of a task name
Fragments(task_name) ==
    IF task_name = "result_summary" THEN <<"result_", "summary">>
    ELSE <<task_name>>

\* The registered function called as func(*args, **kwargs)
SpFunction(task_name, args, kwargs) ==
    IF task_name = "result_summary"
    THEN IF Len(args) = 0 /\ DOMAIN kwargs = {}
         THEN [raised |-> FALSE, text |-> <<"no results yet">>]
         ELSE [raised |-> TRUE,
               text |-> <<"result_summary() got an unexpected argument">>]
    ELSE
    IF Len(args) = 1 /\ DOMAIN kwargs = {}
    THEN [raised |-> FALSE, text |-> <<"Hello, ", args[1], "!">>]
    ELSE IF Len(args) = 0 /\ DOMAIN kwargs = {"name"}
    THEN [raised |-> FALSE, text |-> <<"Hello, ", kwargs["name"], "!">>]
    ELSE [raised |-> TRUE,
          text |-> <<"greet() missing 1 required positional argument: 'name'">>]

\* f"{task_name}_{time.time()}"
TaskId(task_name, now) == Fragments(task_name) \o <<"_", ToString(now)>>

\* The metrics _execute_remote sets before publish_data: "task", "task_id"
\* and one "param_<key>" for each keyword argument; positional arguments
\* are set nowhere
RemoteCommand(task_name, task_id, args, kwargs) ==
    (<<"task">> :> <<task_name>>) @@ (<<"task_id">> :> task_id)
    @@ [m \in {<<"param_", key>> : key \in DOMAIN kwargs} |-> <<kwargs[m[2]]>>]

\* ExecuteRemote that publishes without looking at the capabilities
ExecuteRemoteBlind(task_name, args, kwargs, capabilities, now) ==
    [raised |-> FALSE, exception |-> "", message |-> <<>>,
     task_id |-> TaskId(task_name, now),
     published |-> <<RemoteCommand(task_name, TaskId(task_name, now),
                                   args, kwargs)>>]

\* _execute_remote up to publish_data: the ValueError for a task that is not
\* in _device_capabilities, or the task id and the command published
ExecuteRemote(task_name, args, kwargs, capabilities, now) ==
    IF task_name \notin capabilities
    THEN [raised |-> TRUE, exception |-> "ValueError",
          message |-> <<"Task '", task_name, "' not available on device.">>,
          task_id |-> <<>>, published |-> <<>>]
    ELSE [raised |-> FALSE, exception |-> "", message |-> <<>>,
          task_id |-> TaskId(task_name, now),
          published |-> <<RemoteCommand(task_name, TaskId(task_name, now),
                                        args, kwargs)>>]

\* _handle_command on the device: the keyword arguments it passes to the
\* function are payload.get("params", {}); it sets result_<task_id> or
\* error_<task_id> and publishes
HandleCommandOn(_task_registry, payload) ==
    IF <<"task">> \notin DOMAIN payload
       \/ payload[<<"task">>][1] \notin _task_registry
    THEN [invoked |-> FALSE, params |-> EmptyDict, published |-> <<>>]
    ELSE
    LET task_name == payload[<<"task">>][1]
        task_id == IF <<"task_id">> \in DOMAIN payload
                   THEN payload[<<"task_id">>] ELSE <<"None">>
        params == IF <<"params">> \in DOMAIN payload
                  THEN payload[<<"params">>] ELSE EmptyDict
        r == SpFunction(task_name, <<>>, params)
    IN  [invoked |-> TRUE, params |-> params,
         published |-> <<(<<IF r.raised THEN "error_" ELSE "result_">>
                           \o task_id) :> r.text>>]

\* _handle_command in the process of device.py
HandleCommand(payload) == HandleCommandOn(SpRegistry, payload)

\* The metrics start_device sets before it connects: one "task_<name>" for
\* each registered task
BirthPayload(device_id) == {<<"task_", name>> : name \in SpRegistryOf(device_id)}

\* name.replace(prefix, ""): every occurrence goes
Replace(name, prefix) == SelectSeq(name, LAMBDA fragment : fragment # prefix)

\* _handle_data on the orchestrator: _results after the metrics of a payload
HandleData(results, payload) ==
    LET hit == {m \in DOMAIN payload : m[1] \in {"result_", "error_"}}
    IN  [t \in {Replace(m, m[1]) : m \in hit} |->
            LET m == CHOOSE n \in hit : Replace(n, n[1]) = t
            IN  [is_exception |-> m[1] = "error_", text |-> payload[m]]]
        @@ results

\* _handle_birth on the orchestrator: _device_capabilities is cleared and
\* then filled from the task_ metrics of this payload
HandleBirth(capabilities, payload) ==
    {Replace(m, "task_")[1] : m \in {n \in payload : n[1] = "task_"}}

\* The calls orchestrator code makes on the decorated function
SpInvocations ==
    { [task_name |-> "greet", args |-> <<>>, kwargs |-> ("name" :> "Alice")],
      [task_name |-> "greet", args |-> <<"Alice">>, kwargs |-> EmptyDict],
      [task_name |-> "greet", args |-> <<>>, kwargs |-> EmptyDict] }

\* The calls orchestrator code makes in a group of two devices
SpGroupInvocations ==
    SpInvocations
    \cup {[task_name |-> "result_summary", args |-> <<>>, kwargs |-> EmptyDict]}

\* The task names a Birth message announces
Births == { {"greet"}, {} }

\* time.time() values read while the model runs
MaxClock == 1

\* ------------------------------------------------------- HTTP variant
\* _task_registry of device_server after the @task() decorators of
\* examples/test_fastapi_communication.py have run
HttpRegistry == {"test_mix_colors", "test_get_status", "test_error_task"}

HttpSignature(task_name) ==
    CASE task_name = "test_mix_colors" ->
             <<Required("r"), Required("g"), Required("b"),
               Optional("well", PyStr(<<"A1">>))>>
      [] OTHER -> <<>>

\* The registered function called with keyword arguments: whether it raised,
\* the exception's class and text, and the value returned
HttpFunction(task_name, arguments) ==
    CASE task_name = "test_mix_colors" ->
             [raised |-> FALSE, class |-> "", exc |-> <<>>,
              value |-> PyStr(<<"TESTED: Mixed RGB(">> \o Str(arguments["r"])
                              \o <<",">> \o Str(arguments["g"])
                              \o <<",">> \o Str(arguments["b"])
                              \o <<") in well ">> \o Str(arguments["well"]))]
      [] task_name = "test_get_status" ->
             [raised |-> FALSE, class |-> "", exc |-> <<>>,
              value |-> PyDict(<<"status", "timestamp", "test_mode">>)]
      [] OTHER ->
             [raised |-> TRUE, class |-> "ValueError",
              exc |-> <<"This is a test error">>, value |-> PyNone]

\* The route POST /execute/{task_name} of DeviceServer: the status code and
\* body of the response, whether the task function was called and whether
\* it raised
HttpRoute(task_name, parameters) ==
    IF task_name \notin HttpRegistry
    THEN [status_code |-> 404, result |-> PyNone,
          detail |-> <<"Task '", task_name, "' not found.">>,
          invoked |-> FALSE, raised |-> FALSE]
    ELSE
    LET bound_args == Bind(HttpSignature(task_name), parameters)
    IN  IF ~bound_args.ok
        THEN [status_code |-> 400, result |-> PyNone,
              detail |-> <<"Invalid parameters for task '", task_name, "': ">>
                         \o bound_args.error,
              invoked |-> FALSE, raised |-> FALSE]
        ELSE
        LET r == HttpFunction(task_name, bound_args.arguments)
        IN  IF r.raised /\ r.class = "TypeError"
            THEN [status_code |-> 400, result |-> PyNone,
                  detail |-> <<"Invalid parameters for task '", task_name, "': ">>
                             \o r.exc,
                  invoked |-> TRUE, raised |-> TRUE]
            ELSE IF r.raised
            THEN [status_code |-> 500, result |-> PyNone,
                  detail |-> <<"Error executing task '", task_name, "': ">>
                             \o r.exc,
                  invoked |-> TRUE, raised |-> TRUE]
            ELSE [status_code |-> 200, result |-> r.value, detail |-> <<>>,
                  invoked |-> TRUE, raised |-> FALSE]

\* What can happen to the request on the network: it is answered in time,
\* the connection is refused (httpx.ConnectError), or it is delivered and
\* the answer does not come within the client's timeout (httpx.ReadTimeout);
\* both exceptions are httpx.RequestError
Networks == {"answered", "refused", "read_timeout"}

\* OrchestratorClient.execute_task: what it returns or raises, with what
\* happened on the way
HttpExecuteTask(task_name, params, network) ==
    LET delivered == network # "refused"
        response == HttpRoute(task_name, LoadsDict(DumpsDict(params)))
        facts == [task_name |-> task_name, delivered |-> delivered,
                  registered |-> task_name \in HttpRegistry,
                  bound |-> /\ task_name \in HttpRegistry
                            /\ Bind(HttpSignature(task_name),
                                    LoadsDict(DumpsDict(params))).ok,
                  invoked |-> delivered /\ response.invoked,
                  raised |-> delivered /\ response.raised]
    IN  IF network # "answered"
        THEN [facts |-> facts,
              outcome |-> Raised("ConnectionError",
                                 <<"Failed to connect to device server: ", network>>)]
        ELSE IF response.status_code = 200
        THEN [facts |-> facts,
              outcome |-> Returned(JsonLoads(JsonDumps(response.result)))]
        ELSE IF response.status_code = 404
        THEN [facts |-> facts,
              outcome |-> Raised("ValueError",
                                 <<"Task '", task_name, "' not found on device server">>)]
        ELSE IF response.status_code = 400
        THEN [facts |-> facts,
              outcome |-> Raised("ValueError", response.detail)]
        ELSE [facts |-> facts,
              outcome |-> Raised("RuntimeError",
                                 <<"Device server error (500): ">> \o response.detail)]

\* The execute_task calls made on the HTTP client
HttpInvocations ==
    { [task_name |-> "test_mix_colors", params |-> Rgb],
      [task_name |-> "test_mix_colors",
       params |-> ("r" :> PyInt(255)) @@ ("g" :> PyInt(128))],
      [task_name |-> "test_get_status", params |-> EmptyDict],
      [task_name |-> "test_error_task", params |-> EmptyDict],
      [task_name |-> "test_get_status", params |-> "well" :> PyStr(<<"B2">>)],
      [task_name |-> "nonexistent_task", params |-> EmptyDict] }

\* execute_task calls made on one OrchestratorClient
MaxHttpCalls == 2

\* ------------------------------------------------------------------- state
VARIABLES
    connected,         \* MQTTOrchestratorClient.connected
    loop,              \* the client's network loop is running
    sessions,          \* connect() calls made on the client so far
    pending_requests,  \* request_id -> the Queue (named by its caller)
    result_queue,      \* the Queue object of each caller's current call
    nextId,            \* how many request ids have been drawn, plus one
    pc,                \* where each caller stands in execute_task
    local,             \* request_id, task_name, params, cmd_timeout of a call
    result,            \* the payload a call took from its queue
    outcome,           \* what a caller's last call returned or raised
    commandTopic,      \* commands the broker has for the device, in order
    resultTopic,       \* results the broker has for the client
    lastDelivery,      \* whether the last result delivered found an entry
    foreign,           \* payloads published by other participants so far
    duplicates,        \* results delivered once more so far
    running,           \* MQTTDeviceServer.running
    srv_connected,     \* MQTTDeviceServer.connected
    srv_subscribed,    \* the device is subscribed to its command topic
    srv_loop,          \* the device's network loop thread is alive
    lastHandled,       \* the last command the device handled, and how
    seen,              \* what the device has been through so far
    srv_link,          \* the device's broker connection: down, connecting, up
    srv_sessions,      \* broker connects the device has been accepted for
    statusTopic,       \* the messages published on the device's status topic
    registry,          \* the task registry of each decorator's module
    namespace,         \* what each decorated name refers to
    lastDef,           \* the last decorated def statement, and how it went
    _device_capabilities, \* the task names of the last Birth message
    _results,          \* task_id -> result or Exception, on the orchestrator
    clock,             \* what time.time() returns
    sp_calls,          \* remote invocations made so far
    sp_pc,             \* where each caller stands in _execute_remote
    sp_local,          \* the arguments and the task_id of a caller's call
    sp_outcome,        \* what a caller's last remote call returned or raised
    cmdChannel,        \* command payloads on their way to the device
    dataChannel,       \* data payloads on their way to the orchestrator
    sp_handled,        \* the last command the device handled, and how
    http_log,          \* the execute_task calls made on the HTTP client
    io,                \* where the client's network thread stands in _on_message
    sp_online,         \* the devices that have connected and announced their tasks
    sp_received,       \* the last command a device of the group received
    start_pc,          \* where the thread inside MQTTDeviceServer.start stands
    stop_called        \* stop() has been called since start() was entered

clientVars == <<connected, loop, sessions, pending_requests, result_queue, nextId>>
callVars == <<pc, local, result, outcome>>
netVars == <<commandTopic, resultTopic, lastDelivery, foreign, duplicates>>
serverVars == <<running, srv_connected, srv_subscribed, srv_loop, lastHandled,
                seen, srv_link, srv_sessions, statusTopic>>
regVars == <<registry, namespace, lastDef>>
spVars == <<_device_capabilities, _results, clock, sp_calls, sp_pc, sp_local,
            sp_outcome, cmdChannel, dataChannel, sp_handled>>
httpVars == <<http_log>>
ioVars == <<io>>
groupVars == <<sp_online, sp_received>>
startVars == <<start_pc, stop_called>>
vars == <<clientVars, callVars, netVars, serverVars, regVars, spVars, httpVars,
          ioVars, groupVars, startVars>>

NoLocal ==
    [request_id |-> Missing, task_name |-> Missing, params |-> EmptyDict,
     cmd_timeout |-> None]

NothingHandled ==
    [handled |-> FALSE, msg |-> InvalidJson, published |-> <<>>,
     invoked |-> FALSE, raised |-> FALSE, escaped |-> FALSE,
     afterRaise |-> FALSE, afterMalformed |-> FALSE]

NothingDefined ==
    [decorator |-> "", style |-> "", func |-> 0, task_name |-> "",
     duplicate |-> FALSE, previous |-> 0, raised |-> FALSE]

SpNoLocal ==
    [called |-> FALSE, task_name |-> "", args |-> <<>>, kwargs |-> EmptyDict,
     known |-> FALSE, published |-> FALSE, task_id |-> <<>>]

SpNothingHandled == [handled |-> FALSE, invoked |-> FALSE, params |-> EmptyDict]

IoIdle ==
    [pc |-> "idle", msg |-> InvalidJson, queue |-> 0, KeyError |-> FALSE,
     escaped |-> FALSE]

SpNothingReceived ==
    [device |-> "", known |-> FALSE, task_id |-> <<>>, published |-> <<>>]

Init ==
    /\ connected = FALSE
    /\ loop = FALSE
    /\ sessions = 0
    /\ pending_requests = EmptyDict
    /\ result_queue = [c \in Callers |-> <<>>]
    /\ nextId = 1
    /\ pc = [c \in Callers |-> "idle"]
    /\ local = [c \in Callers |-> NoLocal]
    /\ result = [c \in Callers |-> NoResult]
    /\ outcome = [c \in Callers |-> NoOutcomeYet]
    /\ commandTopic = <<>>
    /\ resultTopic = {}
    /\ lastDelivery = "none"
    /\ foreign = 0
    /\ duplicates = 0
    /\ running = FALSE
    /\ srv_connected = FALSE
    /\ srv_subscribed = FALSE
    /\ srv_loop = FALSE
    /\ lastHandled = NothingHandled
    /\ seen = [raised |-> FALSE, malformed |-> FALSE]
    /\ srv_link = "down"
    /\ srv_sessions = 0
    /\ statusTopic = <<>>
    /\ registry = [d \in Decorators |-> EmptyRegistry]
    /\ namespace = [n \in {f.__name__ : f \in Functions} |-> Unbound]
    /\ lastDef = NothingDefined
    /\ _device_capabilities = {}
    /\ _results = EmptyDict
    /\ clock = 0
    /\ sp_calls = 0
    /\ sp_pc = [c \in Callers |-> "idle"]
    /\ sp_local = [c \in Callers |-> SpNoLocal]
    /\ sp_outcome = [c \in Callers |-> NoOutcomeYet]
    /\ cmdChannel = <<>>
    /\ dataChannel = <<>>
    /\ sp_handled = SpNothingHandled
    /\ http_log = <<>>
    /\ io = IoIdle
    /\ sp_online = {}
    /\ sp_received = SpNothingReceived
    /\ start_pc = "idle"
    /\ stop_called = FALSE

\* ---------------------------------------------------------- device actions
\* MQTTDeviceServer.start: connect, running = True, loop_start
ServerStart ==
    /\ ~running
    /\ ~srv_loop
    /\ srv_sessions < MaxDeviceSessions
    /\ running' = TRUE
    /\ srv_loop' = TRUE
    /\ srv_link' = "connecting"
    /\ UNCHANGED <<srv_connected, srv_subscribed, lastHandled, seen>>
    /\ UNCHANGED <<srv_sessions, statusTopic>>
    /\ UNCHANGED <<clientVars, callVars, netVars>>
    /\ UNCHANGED <<regVars, spVars>>
    /\ UNCHANGED httpVars
    /\ UNCHANGED ioVars
    /\ UNCHANGED groupVars
    /\ UNCHANGED startVars

\* The broker answers a connect of the device (the first one, or one the
\* network loop made by itself after a connection loss) and the loop calls
\* MQTTDeviceServer._on_connect; a refused connect is tried again.
ServerOnConnect(rc) ==
    /\ srv_loop
    /\ srv_link = "connecting"
    /\ LET r == OnConnect(rc)
       IN  /\ srv_connected' = (srv_connected \/ r.connected)
           /\ srv_subscribed' = (srv_subscribed \/ r.subscribe)
           /\ statusTopic' = statusTopic \o r.status
    /\ srv_link' = IF rc = 0 THEN "up" ELSE "connecting"
    /\ srv_sessions' = IF rc = 0 THEN srv_sessions + 1 ELSE srv_sessions
    /\ UNCHANGED <<running, srv_loop, lastHandled, seen>>
    /\ UNCHANGED <<clientVars, callVars, netVars>>
    /\ UNCHANGED <<regVars, spVars>>
    /\ UNCHANGED httpVars
    /\ UNCHANGED ioVars
    /\ UNCHANGED groupVars
    /\ UNCHANGED startVars

\* The device's network loop hands the next command to _on_message, which
\* runs to its end (task body and publish included) before the next one.
ServerHandle ==
    /\ srv_loop
    /\ commandTopic # <<>>
    /\ LET msg == Head(commandTopic)
           r == ServerOnMessage(msg)
       IN  /\ commandTopic' = Tail(commandTopic)
           /\ resultTopic' =
                  IF loop /\ connected
                  THEN resultTopic \cup {r.published[i] : i \in DOMAIN r.published}
                  ELSE resultTopic
           /\ lastHandled' =
                  [handled |-> TRUE, msg |-> msg, published |-> r.published,
                   invoked |-> r.invoked, raised |-> r.raised,
                   escaped |-> r.escaped, afterRaise |-> seen.raised,
                   afterMalformed |-> seen.malformed]
           /\ seen' = [raised |-> seen.raised \/ r.raised,
                       malformed |-> seen.malformed \/ msg.kind # "object"]
           /\ srv_loop' = ~r.escaped
    /\ UNCHANGED <<running, srv_connected, srv_subscribed>>
    /\ UNCHANGED <<srv_link, srv_sessions, statusTopic>>
    /\ UNCHANGED <<lastDelivery, foreign, duplicates>>
    /\ UNCHANGED <<clientVars, callVars>>
    /\ UNCHANGED <<regVars, spVars>>
    /\ UNCHANGED httpVars
    /\ UNCHANGED ioVars
    /\ UNCHANGED groupVars
    /\ UNCHANGED startVars

\* The device's broker connection ends without stop(): the broker drops the
\* session with its subscription and its undelivered commands and publishes
\* the registered last will; the class has no on_disconnect callback, so
\* self.connected keeps its value, and the network loop connects again.
ServerConnectionLost ==
    /\ srv_link = "up"
    /\ srv_sessions < MaxDeviceSessions
    /\ srv_link' = "connecting"
    /\ srv_subscribed' = FALSE
    /\ commandTopic' = <<>>
    /\ statusTopic' = statusTopic \o will_set
    /\ UNCHANGED <<running, srv_connected, srv_loop, lastHandled, seen,
                   srv_sessions>>
    /\ UNCHANGED <<resultTopic, lastDelivery, foreign, duplicates>>
    /\ UNCHANGED <<clientVars, callVars, regVars, spVars>>
    /\ UNCHANGED httpVars
    /\ UNCHANGED ioVars
    /\ UNCHANGED groupVars
    /\ UNCHANGED startVars

\* MQTTDeviceServer.stop
ServerStop ==
    /\ running
    /\ running' = FALSE
    /\ IF srv_connected
       THEN /\ statusTopic' =
                   IF srv_link = "up"
                   THEN Append(statusTopic, StatusPayload("offline", <<>>))
                   ELSE statusTopic
            /\ srv_loop' = FALSE
            /\ srv_link' = "down"
            /\ srv_subscribed' = FALSE
            /\ commandTopic' = <<>>
       ELSE UNCHANGED <<statusTopic, srv_loop, srv_link, srv_subscribed,
                        commandTopic>>
    /\ UNCHANGED <<srv_connected, lastHandled, seen, srv_sessions>>
    /\ UNCHANGED <<resultTopic, lastDelivery, foreign, duplicates>>
    /\ UNCHANGED <<clientVars, callVars, regVars, spVars>>
    /\ UNCHANGED httpVars
    /\ UNCHANGED ioVars
    /\ UNCHANGED groupVars
    /\ UNCHANGED startVars

\* Another publisher sends a payload to the device's command topic
ForeignCommand(msg) ==
    /\ foreign < MaxForeign
    /\ srv_subscribed
    /\ foreign' = foreign + 1
    /\ commandTopic' = Append(commandTopic, msg)
    /\ UNCHANGED <<resultTopic, lastDelivery, duplicates>>
    /\ UNCHANGED <<clientVars, callVars, serverVars>>
    /\ UNCHANGED <<regVars, spVars>>
    /\ UNCHANGED httpVars
    /\ UNCHANGED ioVars
    /\ UNCHANGED groupVars
    /\ UNCHANGED startVars

\* ---------------------------------------------------------- client actions
\* MQTTOrchestratorClient.connect: client.connect and loop_start
ClientConnect ==
    /\ ~loop
    /\ sessions < MaxSessions
    /\ sessions' = sessions + 1
    /\ loop' = TRUE
    /\ UNCHANGED <<connected, pending_requests, result_queue, nextId>>
    /\ UNCHANGED <<callVars, netVars, serverVars>>
    /\ UNCHANGED <<regVars, spVars>>
    /\ UNCHANGED httpVars
    /\ UNCHANGED ioVars
    /\ UNCHANGED groupVars
    /\ UNCHANGED startVars

\* MQTTOrchestratorClient._on_connect
ClientOnConnect(rc) ==
    /\ loop
    /\ ~connected
    /\ connected' = (rc = 0)
    /\ UNCHANGED <<loop, sessions, pending_requests, result_queue, nextId>>
    /\ UNCHANGED <<callVars, netVars, serverVars>>
    /\ UNCHANGED <<regVars, spVars>>
    /\ UNCHANGED httpVars
    /\ UNCHANGED ioVars
    /\ UNCHANGED groupVars
    /\ UNCHANGED startVars

\* MQTTOrchestratorClient.disconnect; the broker drops the session's messages
ClientDisconnect ==
    /\ connected
    /\ loop' = Disconnect(connected, loop).loop
    /\ connected' = Disconnect(connected, loop).connected
    /\ resultTopic' = {}
    /\ UNCHANGED <<sessions, pending_requests, result_queue, nextId>>
    /\ UNCHANGED <<commandTopic, lastDelivery, foreign, duplicates>>
    /\ UNCHANGED <<callVars, serverVars>>
    /\ UNCHANGED <<regVars, spVars>>
    /\ UNCHANGED httpVars
    /\ UNCHANGED ioVars
    /\ UNCHANGED groupVars
    /\ UNCHANGED startVars

\* Another publisher sends a payload to the device's result topic
ForeignResult(msg) ==
    /\ foreign < MaxForeign
    /\ loop /\ connected
    /\ foreign' = foreign + 1
    /\ resultTopic' = resultTopic \cup {msg}
    /\ UNCHANGED <<commandTopic, lastDelivery, duplicates>>
    /\ UNCHANGED <<clientVars, callVars, serverVars>>
    /\ UNCHANGED <<regVars, spVars>>
    /\ UNCHANGED httpVars
    /\ UNCHANGED ioVars
    /\ UNCHANGED groupVars
    /\ UNCHANGED startVars

\* The client's network loop hands a result message to _on_message; the
\* transport may deliver the same message again later.
Deliver(msg, again) ==
    /\ loop /\ connected
    /\ msg \in resultTopic
    /\ IF again
       THEN /\ duplicates < MaxDuplicates
            /\ duplicates' = duplicates + 1
            /\ UNCHANGED resultTopic
       ELSE /\ resultTopic' = resultTopic \ {msg}
            /\ UNCHANGED duplicates
    /\ LET r == OrchOnMessage(pending_requests, result_queue, msg)
       IN  /\ pending_requests' = r.pending_requests
           /\ result_queue' = r.result_queue
           /\ loop' = (loop /\ ~r.escaped)
    /\ lastDelivery' =
           IF msg.kind = "object" /\ msg.request_id \in DOMAIN pending_requests
           THEN "matched" ELSE "unmatched"
    /\ UNCHANGED <<connected, sessions, nextId, commandTopic, foreign>>
    /\ UNCHANGED <<callVars, serverVars>>
    /\ UNCHANGED <<regVars, spVars>>
    /\ UNCHANGED httpVars
    /\ UNCHANGED ioVars
    /\ UNCHANGED groupVars
    /\ UNCHANGED startVars

\* execute_task up to pending_requests[request_id] = result_queue
Begin(c, inv) ==
    /\ pc[c] \in {"idle", "done"}
    /\ result' = [result EXCEPT ![c] = NoResult]
    /\ IF ~connected
       THEN /\ pc' = [pc EXCEPT ![c] = "done"]
            /\ outcome' = [outcome EXCEPT ![c] =
                   Raised("ConnectionError", <<"Not connected to MQTT broker">>)]
            /\ UNCHANGED <<local, pending_requests, result_queue, nextId>>
       ELSE /\ nextId <= MaxRequests
            /\ nextId' = nextId + 1
            /\ pc' = [pc EXCEPT ![c] = "created"]
            /\ local' = [local EXCEPT ![c] =
                   [request_id |-> NewRequestId(nextId),
                    task_name |-> inv.task_name, params |-> inv.parameters,
                    cmd_timeout |-> CmdTimeout(inv.timeout)]]
            /\ result_queue' = [result_queue EXCEPT ![c] = <<>>]
            /\ pending_requests' =
                   InsertEntry(pending_requests, NewRequestId(nextId), c)
            /\ outcome' = [outcome EXCEPT ![c] = NoOutcomeYet]
    /\ UNCHANGED <<connected, loop, sessions>>
    /\ UNCHANGED <<netVars, serverVars>>
    /\ UNCHANGED <<regVars, spVars>>
    /\ UNCHANGED httpVars
    /\ UNCHANGED ioVars
    /\ UNCHANGED groupVars
    /\ UNCHANGED startVars

\* json.dumps(command) and client.publish
Publish(c) ==
    /\ pc[c] = "created"
    /\ IF ~DictSerializable(local[c].params)
       THEN /\ pc' = [pc EXCEPT ![c] = "finally"]
            /\ outcome' = [outcome EXCEPT ![c] =
                   Raised("TypeError", <<"Object of type ", "object",
                                         " is not JSON serializable">>)]
            /\ UNCHANGED commandTopic
       ELSE /\ pc' = [pc EXCEPT ![c] = "waiting"]
            /\ commandTopic' =
                   IF loop /\ srv_subscribed
                   THEN Append(commandTopic,
                               DumpsCommand(Command(local[c].request_id,
                                                    local[c].task_name,
                                                    local[c].params)))
                   ELSE commandTopic
            /\ UNCHANGED outcome
    /\ UNCHANGED <<local, result>>
    /\ UNCHANGED <<resultTopic, lastDelivery, foreign, duplicates>>
    /\ UNCHANGED <<clientVars, serverVars>>
    /\ UNCHANGED <<regVars, spVars>>
    /\ UNCHANGED httpVars
    /\ UNCHANGED ioVars
    /\ UNCHANGED groupVars
    /\ UNCHANGED startVars

\* result_queue.get returns a payload
GetResult(c) ==
    /\ pc[c] = "waiting"
    /\ result_queue[c] # <<>>
    /\ result' = [result EXCEPT ![c] = Head(result_queue[c])]
    /\ result_queue' = [result_queue EXCEPT ![c] = Tail(@)]
    /\ outcome' = [outcome EXCEPT ![c] = OutcomeOf(Head(result_queue[c]))]
    /\ pc' = [pc EXCEPT ![c] = "finally"]
    /\ UNCHANGED <<connected, loop, sessions, pending_requests, nextId, local>>
    /\ UNCHANGED <<netVars, serverVars>>
    /\ UNCHANGED <<regVars, spVars>>
    /\ UNCHANGED httpVars
    /\ UNCHANGED ioVars
    /\ UNCHANGED groupVars
    /\ UNCHANGED startVars

\* result_queue.get raises Empty: nothing arrived within cmd_timeout
GetEmpty(c) ==
    /\ pc[c] = "waiting"
    /\ result_queue[c] = <<>>
    /\ Expires(local[c].cmd_timeout)
    /\ outcome' = [outcome EXCEPT ![c] =
           TimeoutOutcome(local[c].task_name, local[c].cmd_timeout)]
    /\ pc' = [pc EXCEPT ![c] = "finally"]
    /\ UNCHANGED <<local, result>>
    /\ UNCHANGED <<clientVars, netVars, serverVars>>
    /\ UNCHANGED <<regVars, spVars>>
    /\ UNCHANGED httpVars
    /\ UNCHANGED ioVars
    /\ UNCHANGED groupVars
    /\ UNCHANGED startVars

\* finally: pending_requests.pop(request_id, None); the call ends and its
\* local variables go out of scope, what it returned or raised stays with
\* the caller
Finally(c) ==
    /\ pc[c] = "finally"
    /\ pending_requests' = PopEntry(pending_requests, local[c].request_id)
    /\ pc' = [pc EXCEPT ![c] = "done"]
    /\ local' = [local EXCEPT ![c] = NoLocal]
    /\ result' = [result EXCEPT ![c] = NoResult]
    /\ result_queue' = [result_queue EXCEPT ![c] = <<>>]
    /\ UNCHANGED <<connected, loop, sessions, nextId, outcome>>
    /\ UNCHANGED <<netVars, serverVars>>
    /\ UNCHANGED <<regVars, spVars>>
    /\ UNCHANGED httpVars
    /\ UNCHANGED ioVars
    /\ UNCHANGED groupVars
    /\ UNCHANGED startVars

\* The steps of the system for the callers and the inputs given
NextWith(callers, invocations) ==
    \/ ServerStart
    \/ \E rc \in {0, 5} : ServerOnConnect(rc)
    \/ ServerHandle
    \/ \E msg \in ForeignCommands : ForeignCommand(msg)
    \/ ClientConnect
    \/ \E rc \in {0, 5} : ClientOnConnect(rc)
    \/ ClientDisconnect
    \/ \E msg \in ForeignResults : ForeignResult(msg)
    \/ \E msg \in resultTopic, again \in BOOLEAN : Deliver(msg, again)
    \/ \E c \in callers, inv \in invocations : Begin(c, inv)
    \/ \E c \in callers : Publish(c)
    \/ \E c \in callers : GetResult(c)
    \/ \E c \in callers : GetEmpty(c)
    \/ \E c \in callers : Finally(c)

\* One caller thread making its calls one after the other, as the test
\* script does, with every invocation
Next == NextWith({1}, Invocations)

Spec == Init /\ [][Next]_vars

\* The invocations of the concurrent callers: one that succeeds and one
\* whose task raises
ConcurrentInvocations ==
    { inv \in Invocations :
          inv.task_name \in {"test_get_status", "test_error_task"} }

\* Several caller threads with calls in flight at once on one client
NextConcurrent == NextWith(Callers, ConcurrentInvocations)

SpecConcurrent == Init /\ [][NextConcurrent]_vars

\* A caller thread that is inside execute_task keeps running: it publishes,
\* its Queue.get returns or expires, and its finally block runs.
CallerStep(c) == Publish(c) \/ GetResult(c) \/ GetEmpty(c) \/ Finally(c)

SpecConcurrentFair ==
    SpecConcurrent /\ \A c \in Callers : WF_vars(CallerStep(c))

\* A module is imported: its decorated def statements run one by one
Decorate(d, style, func) ==
    /\ d = "sparkplug_task" => style = "bare"
    /\ LET r == Decorated(d, style, func, registry[d])
       IN  /\ registry' = [registry EXCEPT ![d] = r.registry]
           /\ namespace' = [namespace EXCEPT ![func.__name__] = r.returns]
           /\ lastDef' =
                  [decorator |-> d, style |-> style, func |-> func.id,
                   task_name |-> r.task_name,
                   duplicate |-> /\ d = "sparkplug_task" \/ style # "bare"
                                 /\ r.task_name \in DOMAIN registry[d],
                   previous |-> IF r.task_name \in DOMAIN registry[d]
                                THEN registry[d][r.task_name] ELSE 0,
                   raised |-> r.raised]
    /\ UNCHANGED <<clientVars, callVars, netVars, serverVars, spVars>>
    /\ UNCHANGED httpVars
    /\ UNCHANGED ioVars
    /\ UNCHANGED groupVars
    /\ UNCHANGED startVars

NextRegistry ==
    \E d \in Decorators, style \in Styles, func \in Functions :
        Decorate(d, style, func)

SpecRegistry == Init /\ [][NextRegistry]_vars

\* The device server alone through its life: started, connected, refused,
\* cut off and connected again, stopped, with commands arriving meanwhile
NextDevice ==
    \/ ServerStart
    \/ \E rc \in {0, 5} : ServerOnConnect(rc)
    \/ ServerConnectionLost
    \/ ServerStop
    \/ ServerHandle
    \/ \E msg \in ForeignCommands : ForeignCommand(msg)

SpecDevice == Init /\ [][NextDevice]_vars

\* ------------------------------------------------------ sparkplug actions
mqttVars == <<clientVars, callVars, netVars, serverVars, regVars>>

\* The orchestrator receives a Birth message: _handle_birth
SpBirth(announced) ==
    /\ _device_capabilities' = announced
    /\ UNCHANGED <<_results, clock, sp_calls, sp_pc, sp_local, sp_outcome,
                   cmdChannel, dataChannel, sp_handled>>
    /\ UNCHANGED mqttVars
    /\ UNCHANGED httpVars
    /\ UNCHANGED ioVars
    /\ UNCHANGED groupVars
    /\ UNCHANGED startVars

\* time.time() moves on
Tick ==
    /\ clock < MaxClock
    /\ clock' = clock + 1
    /\ UNCHANGED <<_device_capabilities, _results, sp_calls, sp_pc, sp_local,
                   sp_outcome, cmdChannel, dataChannel, sp_handled>>
    /\ UNCHANGED mqttVars
    /\ UNCHANGED httpVars
    /\ UNCHANGED ioVars
    /\ UNCHANGED groupVars
    /\ UNCHANGED startVars

\* The wrapper in ORCHESTRATOR_MODE: _execute_remote up to publish_data
SpCall(c, inv) ==
    /\ sp_pc[c] \in {"idle", "done"}
    /\ sp_calls < MaxRequests
    /\ sp_calls' = sp_calls + 1
    /\ LET r == ExecuteRemote(inv.task_name, inv.args, inv.kwargs,
                              _device_capabilities, clock)
       IN  /\ sp_local' = [sp_local EXCEPT ![c] =
                  [called |-> TRUE, task_name |-> inv.task_name,
                   args |-> inv.args, kwargs |-> inv.kwargs,
                   known |-> inv.task_name \in _device_capabilities,
                   published |-> r.published # <<>>, task_id |-> r.task_id]]
           /\ cmdChannel' = cmdChannel \o r.published
           /\ IF r.raised
              THEN /\ sp_pc' = [sp_pc EXCEPT ![c] = "done"]
                   /\ sp_outcome' = [sp_outcome EXCEPT ![c] =
                          Raised(r.exception, r.message)]
              ELSE /\ sp_pc' = [sp_pc EXCEPT ![c] = "waiting"]
                   /\ sp_outcome' = [sp_outcome EXCEPT ![c] = NoOutcomeYet]
    /\ UNCHANGED <<_device_capabilities, _results, clock, dataChannel,
                   sp_handled>>
    /\ UNCHANGED mqttVars
    /\ UNCHANGED httpVars
    /\ UNCHANGED ioVars
    /\ UNCHANGED groupVars
    /\ UNCHANGED startVars

\* The device receives a command: _handle_command
SpHandleCommand ==
    /\ cmdChannel # <<>>
    /\ LET r == HandleCommand(Head(cmdChannel))
       IN  /\ dataChannel' = dataChannel \o r.published
           /\ sp_handled' = [handled |-> TRUE, invoked |-> r.invoked,
                             params |-> r.params]
    /\ cmdChannel' = Tail(cmdChannel)
    /\ UNCHANGED <<_device_capabilities, _results, clock, sp_calls, sp_pc,
                   sp_local, sp_outcome>>
    /\ UNCHANGED mqttVars
    /\ UNCHANGED httpVars
    /\ UNCHANGED ioVars
    /\ UNCHANGED groupVars
    /\ UNCHANGED startVars

\* The orchestrator receives a data payload: _handle_data
SpHandleData ==
    /\ dataChannel # <<>>
    /\ _results' = HandleData(_results, Head(dataChannel))
    /\ dataChannel' = Tail(dataChannel)
    /\ UNCHANGED <<_device_capabilities, clock, sp_calls, sp_pc, sp_local,
                   sp_outcome, cmdChannel, sp_handled>>
    /\ UNCHANGED mqttVars
    /\ UNCHANGED httpVars
    /\ UNCHANGED ioVars
    /\ UNCHANGED groupVars
    /\ UNCHANGED startVars

\* The wait loop finds task_id in _results: pop, then return or raise
SpTake(c) ==
    /\ sp_pc[c] = "waiting"
    /\ sp_local[c].task_id \in DOMAIN _results
    /\ LET r == _results[sp_local[c].task_id]
       IN  sp_outcome' = [sp_outcome EXCEPT ![c] =
               IF r.is_exception THEN Raised("Exception", r.text)
               ELSE Returned(PyStr(r.text))]
    /\ _results' = [t \in DOMAIN _results \ {sp_local[c].task_id} |-> _results[t]]
    /\ sp_pc' = [sp_pc EXCEPT ![c] = "done"]
    /\ UNCHANGED <<_device_capabilities, clock, sp_calls, sp_local,
                   cmdChannel, dataChannel, sp_handled>>
    /\ UNCHANGED mqttVars
    /\ UNCHANGED httpVars
    /\ UNCHANGED ioVars
    /\ UNCHANGED groupVars
    /\ UNCHANGED startVars

\* The wait loop finds nothing for longer than its timeout: TimeoutError
SpTimeout(c) ==
    /\ sp_pc[c] = "waiting"
    /\ sp_local[c].task_id \notin DOMAIN _results
    /\ sp_outcome' = [sp_outcome EXCEPT ![c] =
           Raised("TimeoutError",
                  <<"Task ", sp_local[c].task_name, " timed out after 10s">>)]
    /\ sp_pc' = [sp_pc EXCEPT ![c] = "done"]
    /\ UNCHANGED <<_device_capabilities, _results, clock, sp_calls, sp_local,
                   cmdChannel, dataChannel, sp_handled>>
    /\ UNCHANGED mqttVars
    /\ UNCHANGED httpVars
    /\ UNCHANGED ioVars
    /\ UNCHANGED groupVars
    /\ UNCHANGED startVars

NextSparkplug ==
    \/ \E announced \in Births : SpBirth(announced)
    \/ Tick
    \/ \E c \in Callers, inv \in SpInvocations : SpCall(c, inv)
    \/ SpHandleCommand
    \/ SpHandleData
    \/ \E c \in Callers : SpTake(c)
    \/ \E c \in Callers : SpTimeout(c)

SpecSparkplug == Init /\ [][NextSparkplug]_vars

\* ------------------------------- MQTTDeviceServer.start, statement by statement
restVars == <<clientVars, callVars, regVars, spVars, httpVars, ioVars, groupVars>>

\* A thread calls start()
StartEnter ==
    /\ start_pc = "idle"
    /\ start_pc' = "entered"
    /\ UNCHANGED <<stop_called, netVars, serverVars, restVars>>

\* self.client.connect(...) returns, or raises and start() raises with it
StartConnect(ok) ==
    /\ start_pc = "entered"
    /\ srv_sessions < MaxDeviceSessions
    /\ start_pc' = IF ok THEN "connected" ELSE "raised"
    /\ srv_link' = IF ok THEN "connecting" ELSE srv_link
    /\ UNCHANGED <<running, srv_connected, srv_subscribed, srv_loop,
                   lastHandled, seen, srv_sessions, statusTopic>>
    /\ UNCHANGED <<stop_called, netVars, restVars>>

\* self.running = True
StartSetRunning ==
    /\ start_pc = "connected"
    /\ start_pc' = "running_set"
    /\ running' = TRUE
    /\ UNCHANGED <<srv_connected, srv_subscribed, srv_loop, lastHandled, seen,
                   srv_link, srv_sessions, statusTopic>>
    /\ UNCHANGED <<stop_called, netVars, restVars>>

\* self.client.loop_start()
StartLoopStart ==
    /\ start_pc = "running_set"
    /\ start_pc' = "looping"
    /\ srv_loop' = TRUE
    /\ UNCHANGED <<running, srv_connected, srv_subscribed, lastHandled, seen,
                   srv_link, srv_sessions, statusTopic>>
    /\ UNCHANGED <<stop_called, netVars, restVars>>

\* while self.running: time.sleep(1) finds running False and start() returns
StartReturn ==
    /\ start_pc = "looping"
    /\ ~running
    /\ start_pc' = "returned"
    /\ UNCHANGED <<stop_called, netVars, serverVars, restVars>>

\* Another thread calls stop() while or after start() runs
StopCall ==
    /\ start_pc # "idle"
    /\ stop_called' = TRUE
    /\ running' = FALSE
    /\ IF srv_connected
       THEN /\ statusTopic' =
                   IF srv_link = "up"
                   THEN Append(statusTopic, StatusPayload("offline", <<>>))
                   ELSE statusTopic
            /\ srv_loop' = FALSE
            /\ srv_link' = "down"
            /\ srv_subscribed' = FALSE
            /\ commandTopic' = <<>>
       ELSE UNCHANGED <<statusTopic, srv_loop, srv_link, srv_subscribed,
                        commandTopic>>
    /\ UNCHANGED <<srv_connected, lastHandled, seen, srv_sessions>>
    /\ UNCHANGED <<resultTopic, lastDelivery, foreign, duplicates>>
    /\ UNCHANGED <<start_pc, restVars>>

\* The statements of start()
StartStep ==
    \/ \E ok \in BOOLEAN : StartConnect(ok)
    \/ StartSetRunning
    \/ StartLoopStart
    \/ StartReturn

NextStartStop ==
    \/ StartEnter
    \/ StartStep
    \/ StopCall
    \/ \E rc \in {0, 5} : ServerOnConnect(rc)
    \/ ServerConnectionLost
    \/ ServerHandle
    \/ \E msg \in ForeignCommands : ForeignCommand(msg)

SpecStartStop == Init /\ [][NextStartStop]_vars

\* The thread that is inside start() keeps running
SpecStartStopFair == SpecStartStop /\ WF_vars(StartStep)

\* ------------------------------------------- a group of sparkplug devices
otherVars == <<mqttVars, httpVars, ioVars>>

\* start_device on a device: its Birth message reaches the orchestrator,
\* which runs _handle_birth
SpDeviceBirth(d) ==
    /\ d \notin sp_online
    /\ sp_online' = sp_online \cup {d}
    /\ _device_capabilities' = HandleBirth(_device_capabilities, BirthPayload(d))
    /\ UNCHANGED <<_results, clock, sp_calls, sp_pc, sp_local, sp_outcome,
                   cmdChannel, dataChannel, sp_handled, sp_received>>
    /\ UNCHANGED otherVars
    /\ UNCHANGED startVars

\* A device goes offline; the orchestrator's on_message does nothing for a
\* topic that is neither a birth nor a data topic
SpDeviceDeath(d) ==
    /\ d \in sp_online
    /\ sp_online' = sp_online \ {d}
    /\ UNCHANGED <<spVars, sp_received>>
    /\ UNCHANGED otherVars
    /\ UNCHANGED startVars

\* A device that is online receives a command: _handle_command with that
\* process's _task_registry.  Which device the transport hands a command to
\* is not decided by the sender.
SpHandleCommandAt(d) ==
    /\ d \in sp_online
    /\ cmdChannel # <<>>
    /\ LET payload == Head(cmdChannel)
           r == HandleCommandOn(SpRegistryOf(d), payload)
       IN  /\ dataChannel' = dataChannel \o r.published
           /\ sp_handled' = [handled |-> TRUE, invoked |-> r.invoked,
                             params |-> r.params]
           /\ sp_received' =
                  [device |-> d,
                   known |-> payload[<<"task">>][1] \in SpRegistryOf(d),
                   task_id |-> payload[<<"task_id">>],
                   published |-> r.published]
    /\ cmdChannel' = Tail(cmdChannel)
    /\ UNCHANGED <<_device_capabilities, _results, clock, sp_calls, sp_pc,
                   sp_local, sp_outcome, sp_online>>
    /\ UNCHANGED otherVars
    /\ UNCHANGED startVars

NextSparkplugGroup ==
    \/ \E d \in SpDevices : SpDeviceBirth(d)
    \/ \E d \in SpDevices : SpDeviceDeath(d)
    \/ Tick
    \/ \E c \in Callers, inv \in SpGroupInvocations : SpCall(c, inv)
    \/ \E d \in SpDevices : SpHandleCommandAt(d)
    \/ SpHandleData
    \/ \E c \in Callers : SpTake(c)
    \/ \E c \in Callers : SpTimeout(c)

SpecSparkplugGroup == Init /\ [][NextSparkplugGroup]_vars

\* ------------------------------------------- _on_message, statement by statement
\* The network loop hands a result message to _on_message, which runs up to
\* the test "request_id in self.pending_requests"
IoTest(msg, again) ==
    /\ loop /\ connected
    /\ io.pc = "idle"
    /\ msg \in resultTopic
    /\ IF again
       THEN /\ duplicates < MaxDuplicates
            /\ duplicates' = duplicates + 1
            /\ UNCHANGED resultTopic
       ELSE /\ resultTopic' = resultTopic \ {msg}
            /\ UNCHANGED duplicates
    /\ LET r == OnMessageTest(pending_requests, msg)
       IN  io' = [pc |-> IF r.found THEN "tested" ELSE "idle", msg |-> msg,
                  queue |-> 0, KeyError |-> FALSE, escaped |-> r.escaped]
    /\ UNCHANGED <<commandTopic, lastDelivery, foreign>>
    /\ UNCHANGED <<clientVars, callVars, serverVars, regVars, spVars, httpVars>>
    /\ UNCHANGED groupVars
    /\ UNCHANGED startVars

\* self.pending_requests[request_id]
IoLookup ==
    /\ io.pc = "tested"
    /\ LET r == OnMessageLookup(pending_requests, LoadsResult(io.msg).request_id)
       IN  /\ io' = [io EXCEPT !.pc = IF r.KeyError THEN "idle" ELSE "found",
                               !.queue = r.queue,
                               !.KeyError = r.KeyError,
                               !.escaped = r.escaped]
           /\ loop' = (loop /\ ~r.escaped)
    /\ UNCHANGED <<connected, sessions, pending_requests, result_queue, nextId>>
    /\ UNCHANGED <<callVars, netVars, serverVars, regVars, spVars, httpVars>>
    /\ UNCHANGED groupVars
    /\ UNCHANGED startVars

\* .put(payload) on the Queue object found; the object is the one the caller
\* waits on only while that caller's call for this request_id is running
IoPut ==
    /\ io.pc = "found"
    /\ result_queue' =
           IF local[io.queue].request_id = LoadsResult(io.msg).request_id
           THEN [result_queue EXCEPT ![io.queue] = Append(@, LoadsResult(io.msg))]
           ELSE result_queue
    /\ io' = [io EXCEPT !.pc = "idle"]
    /\ UNCHANGED <<connected, loop, sessions, pending_requests, nextId>>
    /\ UNCHANGED <<callVars, netVars, serverVars, regVars, spVars, httpVars>>
    /\ UNCHANGED groupVars
    /\ UNCHANGED startVars

\* One caller thread and the network thread of the client, interleaved
\* statement by statement
NextRace ==
    \/ ServerStart
    \/ \E rc \in {0, 5} : ServerOnConnect(rc)
    \/ ServerHandle
    \/ ClientConnect
    \/ \E rc \in {0, 5} : ClientOnConnect(rc)
    \/ \E msg \in resultTopic, again \in BOOLEAN : IoTest(msg, again)
    \/ IoLookup
    \/ IoPut
    \/ \E inv \in ConcurrentInvocations : Begin(1, inv)
    \/ Publish(1)
    \/ GetResult(1)
    \/ GetEmpty(1)
    \/ Finally(1)

SpecRace == Init /\ [][NextRace]_vars

\* ------------------------------------------------------------ HTTP actions
\* A caller runs OrchestratorClient.execute_task to its end
HttpCall(inv, network) ==
    /\ Len(http_log) < MaxHttpCalls
    /\ http_log' = Append(http_log,
                          HttpExecuteTask(inv.task_name, inv.params, network))
    /\ UNCHANGED <<clientVars, callVars, netVars, serverVars, regVars, spVars>>
    /\ UNCHANGED ioVars
    /\ UNCHANGED groupVars
    /\ UNCHANGED startVars

NextHttp == \E inv \in HttpInvocations, network \in Networks : HttpCall(inv, network)

SpecHttp == Init /\ [][NextHttp]_vars

\* func(**parameters): the registered function called directly
DirectCall(task, parameters) ==
    TaskFunction(task, Bind(Signature(task), parameters).arguments)

\* json.loads(json.dumps(parameters))
RoundTrip(parameters) == LoadsDict(DumpsDict(parameters))

\* The parameters satisfy the task's schema: every required parameter has a
\* value, every name is a parameter of the function, and every value has the
\* annotated type
SatisfiesSchema(task, parameters) ==
    /\ Bind(Signature(task), parameters).ok
    /\ \A k \in DOMAIN parameters : parameters[k].t = Annotations(task)[k]

\* ------------------------------------------------------------ properties
InCall(c) == pc[c] \in {"created", "waiting", "finally"}

\* text is part of message
Contains(message, text) == \E i \in DOMAIN message : message[i] = text

\* C1: with several execute_task calls in flight on one client and the results
\* arriving in any order, every payload in a call's queue, and the payload
\* the call took and built its outcome from, carries the request_id and the
\* task of that call and of no other.
C1_OwnResultOnly ==
    \A c \in Callers :
        InCall(c) =>
            /\ \A i \in DOMAIN result_queue[c] :
                   /\ result_queue[c][i].request_id = local[c].request_id
                   /\ result_queue[c][i].task = local[c].task_name
            /\ result[c] # NoResult =>
                   /\ result[c].request_id = local[c].request_id
                   /\ result[c].task = local[c].task_name
                   /\ outcome[c] = OutcomeOf(result[c])

\* Two calls are in flight, and the later request has its result while the
\* result of the earlier one is still on its way.
C1_Witness ==
    \E c, d \in Callers :
        /\ c # d
        /\ local[c].request_id = NewRequestId(2)
        /\ result[c] # NoResult
        /\ local[d].request_id = NewRequestId(1)
        /\ pc[d] = "waiting"
        /\ result_queue[d] = <<>>
        /\ \E msg \in resultTopic : msg.request_id = NewRequestId(1)

\* C2: once a request's queue has been given a result, no later step puts
\* another payload into it.
C2_FulfilledAtMostOnce ==
    [][\A c \in Callers :
           (InCall(c) /\ InCall(c)' /\ local[c]' = local[c]
            /\ (result_queue[c] # <<>> \/ result[c] # NoResult))
           => Len(result_queue[c]') <= Len(result_queue[c])]_vars

\* C3: delivering a result whose request_id is no key of pending_requests
\* (or a payload that is no JSON object) changes neither pending_requests nor
\* any queue, and the network loop goes on.
C3_UnknownResultDropped ==
    [][\A msg \in resultTopic :
           ((Deliver(msg, TRUE) \/ Deliver(msg, FALSE))
            /\ (msg.kind # "object"
                \/ msg.request_id \notin DOMAIN pending_requests))
           => /\ pending_requests' = pending_requests
              /\ result_queue' = result_queue
              /\ loop']_vars

\* A result was delivered that found no entry, while another call waits.
C3_Witness ==
    /\ lastDelivery = "unmatched"
    /\ \E c \in Callers : pc[c] = "waiting" /\ result_queue[c] = <<>>

\* C4: from the moment a call has created its request until it has taken its
\* result or timed out, thus at the publish and at every moment after it,
\* pending_requests holds the call's request_id with the call's queue; and a
\* result with that request_id delivered in that time lands in that queue.
C4_EntryBeforePublish ==
    /\ [](\A c \in Callers :
             pc[c] \in {"created", "waiting"} =>
                 /\ local[c].request_id \in DOMAIN pending_requests
                 /\ pending_requests[local[c].request_id] = c)
    /\ [][\A c \in Callers : \A msg \in resultTopic :
              ((Deliver(msg, TRUE) \/ Deliver(msg, FALSE))
               /\ pc[c] = "waiting" /\ msg.kind = "object"
               /\ msg.request_id = local[c].request_id)
              => result_queue[c]' = Append(result_queue[c], LoadsResult(msg))]_vars

\* A result is in the queue of a call that has published and not yet taken it.
C4_Witness ==
    \E c \in Callers : pc[c] = "waiting" /\ result_queue[c] # <<>>

\* C5: every execute_task call that has created its request comes to its
\* end; and a call that has published and then leaves Queue.get without a
\* payload, because none was delivered in time, raises TimeoutError naming
\* the task and the timeout in force.
C5_TerminatesWithTimeout ==
    /\ \A c \in Callers : [](InCall(c) => <>(pc[c] = "done"))
    /\ [](\A c \in Callers :
             (pc[c] = "finally" /\ result[c] = NoResult
              /\ DictSerializable(local[c].params))
             => outcome[c] = TimeoutOutcome(local[c].task_name,
                                            local[c].cmd_timeout))

\* A call is about to end with TimeoutError after the client was
\* disconnected while its request was in flight.
C5_Witness ==
    \E c \in Callers :
        /\ pc[c] = "finally"
        /\ outcome[c].kind = "TimeoutError"
        /\ ~connected

C7_RemoteErrorRaised ==
    \A c \in Callers :
        /\ (/\ pc[c] = "finally" /\ result[c] # NoResult
            /\ local[c].task_name \in _mqtt_task_registry
            /\ Bind(Signature(local[c].task_name), RoundTrip(local[c].params)).ok
            /\ DirectCall(local[c].task_name, RoundTrip(local[c].params)).raised)
           => /\ outcome[c].kind = "RuntimeError"
              /\ \A i \in DOMAIN DirectCall(local[c].task_name,
                                            RoundTrip(local[c].params)).exc :
                     Contains(outcome[c].message,
                              DirectCall(local[c].task_name,
                                         RoundTrip(local[c].params)).exc[i])
        /\ (pc[c] = "done" /\ outcome[c].kind = "RuntimeError")
           => \A k \in DOMAIN pending_requests : pending_requests[k] # c

\* A call has ended with the RuntimeError that carries the text of
\* test_error_task's exception.
C7_Witness ==
    \E c \in Callers :
        /\ pc[c] = "done"
        /\ outcome[c].kind = "RuntimeError"
        /\ Contains(outcome[c].message, "This is a test MQTT error")

\* C8: no exception leaves the device's message handler; after a task has
\* raised, the server (unless stopped) still has its network loop and its
\* subscription, and every later command that is a JSON object gets exactly
\* one result published.
C8_RaisingTaskKeepsServing ==
    /\ ~lastHandled.escaped
    /\ (seen.raised /\ running) => (srv_loop /\ srv_subscribed)
    /\ (lastHandled.handled /\ lastHandled.afterRaise
        /\ lastHandled.msg.kind = "object")
       => Len(lastHandled.published) = 1

\* After a task raised, a later command was answered with a success result.
C8_Witness ==
    /\ lastHandled.handled
    /\ lastHandled.afterRaise
    /\ Len(lastHandled.published) = 1
    /\ lastHandled.published[1].status = "success"

\* C9: for a command naming a task that is not registered the device calls
\* no task function and publishes an error result whose text names the task;
\* the call that gets this result raises RuntimeError (not TimeoutError) whose
\* message names the task.
C9_UnknownTaskNamed ==
    /\ (/\ lastHandled.handled /\ lastHandled.msg.kind = "object"
        /\ lastHandled.msg.task \notin _mqtt_task_registry \cup {Missing, ""})
       => /\ ~lastHandled.invoked
          /\ Len(lastHandled.published) = 1
          /\ lastHandled.published[1].status = "error"
          /\ Contains(lastHandled.published[1].error, lastHandled.msg.task)
    /\ \A c \in Callers :
           (/\ pc[c] = "finally" /\ result[c] # NoResult
            /\ local[c].task_name \notin _mqtt_task_registry)
           => /\ outcome[c].kind = "RuntimeError"
              /\ Contains(outcome[c].message, local[c].task_name)

\* A call for nonexistent_mqtt_task is about to end with RuntimeError.
C9_Witness ==
    \E c \in Callers :
        /\ pc[c] = "finally"
        /\ local[c].task_name = "nonexistent_mqtt_task"
        /\ outcome[c].kind = "RuntimeError"

\* C10: a command payload that is not JSON, or is JSON but no object, makes
\* the device call no task and publish nothing, no exception leaves the
\* handler, the server (unless stopped) keeps its network loop and its
\* subscription, and every later command that is a JSON object gets its
\* result published.
C10_MalformedCommandDropped ==
    /\ (lastHandled.handled /\ lastHandled.msg.kind # "object")
       => /\ ~lastHandled.invoked
          /\ ~lastHandled.escaped
          /\ lastHandled.published = <<>>
    /\ (seen.malformed /\ running) => (srv_loop /\ srv_subscribed)
    /\ (lastHandled.handled /\ lastHandled.afterMalformed
        /\ lastHandled.msg.kind = "object")
       => Len(lastHandled.published) = 1

\* After a JSON array was handled as a command, a later command was answered
\* with a success result.
C10_Witness ==
    /\ lastHandled.handled
    /\ lastHandled.afterMalformed
    /\ lastHandled.msg.kind = "object"
    /\ Len(lastHandled.published) = 1
    /\ lastHandled.published[1].status = "success"

\* C11: for a command whose task is registered and whose parameters do not
\* satisfy the task's schema (a required parameter missing, an unknown
\* parameter, or a value of the wrong type), the device publishes one result
\* with status 'error' and does not call the task function.
C11_SchemaViolationRejected ==
    (/\ lastHandled.handled /\ lastHandled.msg.kind = "object"
     /\ lastHandled.msg.task \in _mqtt_task_registry
     /\ ~SatisfiesSchema(lastHandled.msg.task,
                         LoadsDict(lastHandled.msg.parameters)))
    => /\ ~lastHandled.invoked
       /\ Len(lastHandled.published) = 1
       /\ lastHandled.published[1].status = "error"

\* C12: the device handles one command at a time, in arrival order: every
\* step that takes a command takes the oldest one waiting and only that one,
\* and a task body started in that step has ended, and its result (success or
\* error) is published, within the step, hence before the next command's
\* task body starts.
C12_OneTaskInArrivalOrder ==
    [][Len(commandTopic') < Len(commandTopic)
       => /\ commandTopic' = Tail(commandTopic)
          /\ lastHandled'.msg = Head(commandTopic)
          /\ lastHandled'.invoked => Len(lastHandled'.published) = 1
          /\ (loop /\ connected)
             => \A i \in DOMAIN lastHandled'.published :
                    lastHandled'.published[i] \in resultTopic']_vars

\* The device has run a task body for one command while a later command was
\* already waiting on the command topic.
C12_Witness ==
    /\ lastHandled.handled
    /\ lastHandled.invoked
    /\ Len(lastHandled.published) = 1
    /\ commandTopic # <<>>

\* C13: in every reachable state the keys of pending_requests are exactly the
\* request_ids of the execute_task calls that have inserted their entry and
\* have not yet returned or raised; a call that has ended (by success, remote
\* error or timeout) has no entry in the table.
C13_PendingIsInFlight ==
    /\ DOMAIN pending_requests = {local[c].request_id : c \in {d \in Callers : InCall(d)}}
    /\ \A c \in Callers :
           pc[c] = "done" => \A k \in DOMAIN pending_requests : pending_requests[k] # c

\* One call has ended with TimeoutError while another call is in flight and
\* has its entry in the table.
C13_Witness ==
    \E c, d \in Callers :
        /\ pc[c] = "done" /\ outcome[c].kind = "TimeoutError"
        /\ pc[d] = "waiting"
        /\ DOMAIN pending_requests = {local[d].request_id}

\* C14: a def statement decorated so that it registers under a name the
\* registry already holds fails with an error and leaves the entry for that
\* name as it was.
C14_DuplicateRejected ==
    lastDef.duplicate
    => /\ lastDef.raised
       /\ registry[lastDef.decorator][lastDef.task_name] = lastDef.previous

\* C15: after `@mqtt_task` or `@task` written without parentheses the
\* function is in the registry under its own name and the decorated name
\* refers to the original function.
C15_BareDecoratorRegisters ==
    (lastDef.style = "bare" /\ lastDef.decorator \in {"mqtt_task", "task"})
    => /\ lastDef.task_name \in DOMAIN registry[lastDef.decorator]
       /\ registry[lastDef.decorator][lastDef.task_name] = lastDef.func
       /\ namespace[lastDef.task_name].is = "function"
       /\ namespace[lastDef.task_name].id = lastDef.func

IsOnline(m) == m.status = "online"

\* C16: every accepted broker connect of the device (rc = 0), the first one
\* and each one after a connection loss, subscribes to the command topic and
\* publishes one 'online' status listing the names in the registry; a
\* refused connect (rc # 0) does neither.  So the 'online' statuses published
\* are as many as the accepted connects, each lists the registry's names,
\* the device is subscribed whenever its connection is up, and it has
\* subscribed to nothing while no connect was accepted.
C16_OnlineOnEveryConnect ==
    /\ Len(SelectSeq(statusTopic, IsOnline)) = srv_sessions
    /\ \A i \in DOMAIN statusTopic :
           IsOnline(statusTopic[i]) => statusTopic[i].tasks = RegistryNames
    /\ srv_link = "up" => srv_subscribed
    /\ srv_sessions = 0 => ~srv_subscribed

\* The device is connected for the second time, after a connection loss, is
\* subscribed again and has announced itself twice.
C16_Witness ==
    /\ srv_link = "up"
    /\ srv_sessions = 2
    /\ running
    /\ srv_subscribed
    /\ Len(SelectSeq(statusTopic, IsOnline)) = 2

\* C17: when the device's connection ends without stop() having been called,
\* an 'offline' status is announced on its status topic (by the broker, from
\* the last will registered before connecting).
C17_OfflineOnConnectionLoss ==
    [][(srv_link = "up" /\ srv_link' = "connecting")
       => /\ statusTopic' # <<>>
          /\ statusTopic'[Len(statusTopic')].status = "offline"]_vars

\* C18: a remote call of a task that is not among the known capabilities (no
\* Birth received yet, or the task not announced) has ended at once with an
\* error that is not TimeoutError, has published no command and has started
\* no wait.
C18_UnknownCapabilityFailsFast ==
    /\ [](\A c \in Callers :
             (sp_local[c].called /\ ~sp_local[c].known)
             => /\ sp_pc[c] = "done"
                /\ sp_outcome[c].kind = "ValueError"
                /\ ~sp_local[c].published)
    /\ [][\A c \in Callers :
             (sp_local'[c] # sp_local[c] /\ ~sp_local'[c].known)
             => cmdChannel' = cmdChannel /\ sp_pc'[c] = "done"]_vars

\* A call of greet made before any Birth announced it has raised ValueError
\* while no command is on its way.
C18_Witness ==
    \E c \in Callers :
        /\ sp_local[c].called /\ sp_local[c].task_name = "greet"
        /\ ~sp_local[c].known
        /\ sp_outcome[c].kind = "ValueError"
        /\ cmdChannel = <<>>

\* C19: a remote call that got an answer returns what the registered function
\* returns when called with the same arguments, and raises with the
\* function's error text when that call raises.
C19_RemoteEqualsDirect ==
    \A c \in Callers :
        (/\ sp_pc[c] = "done" /\ sp_local[c].called /\ sp_local[c].known
         /\ sp_outcome[c].kind # "TimeoutError")
        => LET direct == SpFunction(sp_local[c].task_name, sp_local[c].args,
                                    sp_local[c].kwargs)
           IN  IF direct.raised
               THEN sp_outcome[c] = Raised("Exception", direct.text)
               ELSE sp_outcome[c] = Returned(PyStr(direct.text))

\* C20: two remote invocations in flight at once have different task ids.
C20_TaskIdsDiffer ==
    \A c, d \in Callers :
        (c # d /\ sp_pc[c] = "waiting" /\ sp_pc[d] = "waiting")
        => sp_local[c].task_id # sp_local[d].task_id

\* C21: every execute_task call of the HTTP client that fails raises
\* ValueError exactly when the request was delivered and the task is not
\* registered or its parameters do not bind (the function not invoked),
\* RuntimeError exactly when the function was invoked and raised, and
\* ConnectionError exactly when the request could not be delivered.
C21_FailuresDistinct ==
    \A i \in DOMAIN http_log :
        LET f == http_log[i].facts
            kind == http_log[i].outcome.kind
        IN  /\ kind = "ValueError" <=> (f.delivered /\ ~f.bound /\ ~f.invoked)
            /\ kind = "RuntimeError" <=> (f.invoked /\ f.raised)
            /\ kind = "ConnectionError" <=> ~f.delivered

\* C22: however the statements of _on_message interleave with a caller
\* that times out and removes its entry, no exception leaves the handler,
\* the call ends either with the result of its own request or with
\* TimeoutError, and the entry of a finished call is gone from
\* pending_requests.
C22_RaceEndsInOneOutcome ==
    /\ ~io.escaped
    /\ \A c \in Callers :
        /\ pc[c] = "finally" =>
              \/ /\ result[c] = NoResult
                 /\ outcome[c] =
                        TimeoutOutcome(local[c].task_name, local[c].cmd_timeout)
              \/ /\ result[c] # NoResult
                 /\ result[c].request_id = local[c].request_id
                 /\ outcome[c] = OutcomeOf(result[c])
        /\ pc[c] \in {"idle", "done"} =>
              \A k \in DOMAIN pending_requests : pending_requests[k] # c

\* The handler passed the membership test, the caller timed out and popped
\* its entry, and the lookup raised the KeyError that the handler caught
C22_Witness ==
    /\ io.KeyError
    /\ io.pc = "idle"
    /\ pc[1] = "done"
    /\ outcome[1].kind = "TimeoutError"

\* C23: _results holds only results of calls that are still waiting: a
\* result or error metric for a task id whose call has timed out, or that
\* no call of this orchestrator carries, is not stored.
C23_OnlyWaitingResultsStored ==
    \A t \in DOMAIN _results :
        \E c \in Callers : sp_pc[c] = "waiting" /\ sp_local[c].task_id = t

\* C24: a device that has received a command whose task name is not in
\* its registry has published an error metric for that command's task id.
C24_UnknownTaskAnswered ==
    (sp_received.device # "" /\ ~sp_received.known) =>
        \E i \in DOMAIN sp_received.published :
            (<<"error_">> \o sp_received.task_id)
                \in DOMAIN sp_received.published[i]

\* C25: the tasks announced by every device that is online are in
\* _device_capabilities; the birth of a second device removes none of the
\* first device's tasks.
C25_CapabilitiesOfOnlineDevicesKept ==
    \A d \in sp_online : SpRegistryOf(d) \subseteq _device_capabilities

\* C29: the task id _handle_data recovers from a metric named result_<id>
\* or error_<id> is <id>, for every metric a device publishes in answer to
\* a command of _execute_remote.
C29_RecoveredIdIsIssuedId ==
    \A i \in DOMAIN dataChannel :
        \A m \in DOMAIN dataChannel[i] :
            m[1] \in {"result_", "error_"} => Replace(m, m[1]) = Tail(m)

\* C26: the connected flag of MQTTDeviceServer is True only while a broker
\* session is established: it is False while the link is down or being
\* re-established, and after stop() has returned.
C26_ConnectedFollowsSession ==
    srv_connected => (srv_link = "up" /\ srv_loop)

\* C27: start() returns only after stop() has been called, and once stop()
\* has been called after start() was entered, start() eventually returns
\* (or has raised from its connect).
C27_StopEndsStart ==
    /\ [](start_pc = "returned" => stop_called)
    /\ (stop_called ~> start_pc \in {"returned", "raised"})

\* C28: for a command that parses as a JSON object the device publishes
\* exactly one result message, with status success or error, and the
\* message carries the command's request_id and task name when the command
\* has them.
C28_OneResultPerCommand ==
    (lastHandled.handled /\ lastHandled.msg.kind = "object") =>
        /\ Len(lastHandled.published) = 1
        /\ lastHandled.published[1].status \in {"success", "error"}
        /\ lastHandled.msg.request_id # Missing =>
               lastHandled.published[1].request_id = lastHandled.msg.request_id
        /\ lastHandled.msg.task # Missing =>
               lastHandled.published[1].task = lastHandled.msg.task

\* The device has answered a command of a client, whose task raised, with
\* one error result under the command's request_id
C28_Witness ==
    /\ lastHandled.handled
    /\ lastHandled.msg.kind = "object"
    /\ lastHandled.msg.request_id = NewRequestId(1)
    /\ lastHandled.raised
    /\ Len(lastHandled.published) = 1
    /\ lastHandled.published[1].status = "error"

\* C30: execute_task called on a client that is not connected (before a
\* successful connect, or after disconnect()) raises ConnectionError and
\* changes nothing: no entry is added to pending_requests, no request id is
\* used and no command is published.
C30_NotConnectedChangesNothing ==
    [][\A c \in Callers :
          (/\ pc[c] \in {"idle", "done"}
           /\ ~connected \/ ~loop
           /\ pc'[c] # pc[c] \/ outcome'[c] # outcome[c])
          => /\ pc'[c] = "done"
             /\ outcome'[c] =
                    Raised("ConnectionError", <<"Not connected to MQTT broker">>)
             /\ pending_requests' = pending_requests
             /\ nextId' = nextId
             /\ commandTopic' = commandTopic]_vars

\* A call made after disconnect() has raised ConnectionError: the client
\* had a call accepted while connected, and its latest call was refused
C30_Witness ==
    /\ ~connected /\ ~loop /\ sessions > 0
    /\ nextId > 1
    /\ pc[1] = "done"
    /\ outcome[1].kind = "ConnectionError"
    /\ pending_requests = EmptyDict

====
